---- MODULE Spec2Model ----
(***************************************************************************)
(* util::RedBlackTree (src/RedBlackTree.h): a left-leaning red-black tree  *)
(* encoding a 2-3 tree.  Nodes are heap objects with two child pointers, a *)
(* parent pointer, a type byte (RED bit, LESS bit) and a key.  The public   *)
(* calls add(key) and remove(key) are modelled with their upward           *)
(* rebalancing loops: the call runs up to its loop, and every iteration of *)
(* the loop is one step; while a call is in progress nothing else can      *)
(* happen (the container is single-threaded).                              *)
(***************************************************************************)
EXTENDS Integers, FiniteSets, Sequences, TLC

\* Keys are 1..MaxKey, ordered by std::less (<).  The heap has room for
\* MaxKey nodes, so allocation never fails.
MaxKey == 8

\* validate() is examined on trees of up to MaxFaultKey keys, built by add and
\* remove and then given one wrong field.
MaxFaultKey == 5

Keys == 1..MaxKey
Node == 1..MaxKey
NIL == 0

VARIABLES
    nodes,      \* heap: Node -> [left, right, parent, red, less, key]
    live,       \* nodes allocated by new and not yet deleted
    m_root,     \* RedBlackTree::m_root
    m_size,     \* RedBlackTree::m_size
    pc,         \* "idle", "add" (in add's loop), "rem" (in remove's loop), "abort"
    cur,        \* freeNode of add's loop / node of remove's loop
    call,       \* the call in progress or last returned: [op, key]
    ret,        \* what the last call returned: [result, node, next]
    lastCase,   \* the rebalancing case the last loop iteration of this call applied
    abs         \* the set of keys the container holds, as a mathematical set

vars == <<nodes, live, m_root, m_size, pc, cur, call, ret, lastCase, abs>>

\* A Node as its constructor leaves it (key set by the caller).
NewNodeRec(k) ==
    [left |-> NIL, right |-> NIL, parent |-> NIL, red |-> FALSE, less |-> FALSE, key |-> k]

\* Storage that holds no object.
Blank == NewNodeRec(0)

\* The tree state the member functions work on: heap n, allocated set live,
\* root pointer, and ok = no assertion has failed.
Tree(n, lv, root) == [n |-> n, live |-> lv, root |-> root, ok |-> TRUE]

-----------------------------------------------------------------------------
\* Node accessors and mutators.

getLeftChild(T, x) == T.n[x].left
getRightChild(T, x) == T.n[x].right
getChild(T, x, left) == IF left THEN T.n[x].left ELSE T.n[x].right
getParent(T, x) == T.n[x].parent
getKey(T, x) == T.n[x].key
isRed(T, x) == T.n[x].red
isBlack(T, x) == ~isRed(T, x)
isLessThanParent(T, x) == T.n[x].less
isGreaterThanParent(T, x) == ~isLessThanParent(T, x)

Node_setLeftChild(T, x, c) == [T EXCEPT !.n[x].left = c]
Node_setRightChild(T, x, c) == [T EXCEPT !.n[x].right = c]
Node_setChild(T, x, left, c) ==
    IF left THEN Node_setLeftChild(T, x, c) ELSE Node_setRightChild(T, x, c)
setParent(T, x, p) == [T EXCEPT !.n[x].parent = p]
setRed(T, x, b) == [T EXCEPT !.n[x].red = b]
setBlack(T, x) == setRed(T, x, FALSE)
setLessThanParent(T, x, b) == [T EXCEPT !.n[x].less = b]
setGreaterThanParent(T, x) == setLessThanParent(T, x, FALSE)

\* std::less on keys.
less(k1, k2) == k1 < k2

\* new Node(key): the allocator hands out storage not in use.  The program
\* only compares addresses for equality, so which free address it is does not
\* matter; the model takes the address numbered like the key when it is free.
NewAddr(T, k) ==
    IF k \notin T.live THEN k ELSE CHOOSE x \in Node : x \notin T.live

New(T, k) ==
    LET x == NewAddr(T, k)
    IN [T EXCEPT !.n[x] = NewNodeRec(k), !.live = @ \cup {x}]

Delete(T, x) == [T EXCEPT !.n[x] = Blank, !.live = @ \ {x}]

\* assert(cond): a failed assertion aborts the program.
Check(T, cond) == [T EXCEPT !.ok = @ /\ cond]

-----------------------------------------------------------------------------
\* RedBlackTree::setChild / setLeftChild / setRightChild (parent, child).

setChild(T, p, c, lessThan) ==
    LET T1 == IF c # NIL THEN setLessThanParent(setParent(T, c, p), c, lessThan) ELSE T
    IN Node_setChild(T1, p, lessThan, c)

setLeftChild(T, p, c) ==
    LET T1 == IF c # NIL THEN setLessThanParent(setParent(T, c, p), c, TRUE) ELSE T
    IN Node_setLeftChild(T1, p, c)

\* Mutant of setRightChild(parent, child): the child's parent pointer is not
\* set.
setRightChild_noParent(T, p, c) ==
    LET T1 == IF c # NIL THEN setLessThanParent(T, c, FALSE) ELSE T
    IN Node_setRightChild(T1, p, c)

setRightChild(T, p, c) ==
    LET T1 == IF c # NIL THEN setLessThanParent(setParent(T, c, p), c, FALSE) ELSE T
    IN Node_setRightChild(T1, p, c)

-----------------------------------------------------------------------------
\* Lookup.

\* find(key): the node holding key, or NIL.
RECURSIVE FindFrom(_, _, _)
FindFrom(T, x, k) ==
    IF x = NIL THEN NIL
    ELSE IF less(k, getKey(T, x)) THEN FindFrom(T, getLeftChild(T, x), k)
    ELSE IF less(getKey(T, x), k) THEN FindFrom(T, getRightChild(T, x), k)
    ELSE x

\* Mutant of find: the two descents exchanged.
RECURSIVE FindFrom_swapped(_, _, _)
FindFrom_swapped(T, x, k) ==
    IF x = NIL THEN NIL
    ELSE IF less(k, getKey(T, x)) THEN FindFrom_swapped(T, getRightChild(T, x), k)
    ELSE IF less(getKey(T, x), k) THEN FindFrom_swapped(T, getLeftChild(T, x), k)
    ELSE x

find_swapped(T, k) == FindFrom_swapped(T, T.root, k)

find(T, k) == FindFrom(T, T.root, k)

\* find(key, nearest, lessThan): [found, nearest, lessThan].
RECURSIVE FindNearestFrom(_, _, _, _, _)
FindNearestFrom(T, nextNode, k, nearest, lessThan) ==
    IF nextNode = NIL THEN [found |-> FALSE, nearest |-> nearest, lessThan |-> lessThan]
    ELSE IF less(k, getKey(T, nextNode))
         THEN FindNearestFrom(T, getLeftChild(T, nextNode), k, nextNode, TRUE)
    ELSE IF less(getKey(T, nextNode), k)
         THEN FindNearestFrom(T, getRightChild(T, nextNode), k, nextNode, FALSE)
    ELSE [found |-> TRUE, nearest |-> nextNode, lessThan |-> TRUE]

\* Mutant of find(key, nearest, lessThan): an equal key is reported as not
\* found.
findNearest_missesEqual(T, k) ==
    [FindNearestFrom(T, T.root, k, NIL, FALSE) EXCEPT !.found = FALSE]

findNearest(T, k) == FindNearestFrom(T, T.root, k, NIL, FALSE)

-----------------------------------------------------------------------------
\* Navigation by links and relation bits only.

RECURSIVE Rightmost(_, _)
Rightmost(T, x) ==
    IF getRightChild(T, x) # NIL THEN Rightmost(T, getRightChild(T, x)) ELSE x

RECURSIVE Leftmost(_, _)
Leftmost(T, x) ==
    IF getLeftChild(T, x) # NIL THEN Leftmost(T, getLeftChild(T, x)) ELSE x

\* The upward loop of getPrevious: the first ancestor reached from a
\* greater-than child, or self when the root is passed.
RECURSIVE PrevUp(_, _, _)
PrevUp(T, x, self) ==
    IF getParent(T, x) = NIL THEN self
    ELSE IF isGreaterThanParent(T, x) THEN getParent(T, x)
    ELSE PrevUp(T, getParent(T, x), self)

\* The upward loop of getNext.
RECURSIVE NextUp(_, _, _)
NextUp(T, x, self) ==
    IF getParent(T, x) = NIL THEN self
    ELSE IF isLessThanParent(T, x) THEN getParent(T, x)
    ELSE NextUp(T, getParent(T, x), self)

\* Mutant of getPrevious: the left child is taken without descending to its
\* rightmost node.
getPrevious_noDescent(T, x) ==
    IF getLeftChild(T, x) # NIL THEN getLeftChild(T, x)
    ELSE PrevUp(T, x, x)

getPrevious(T, x) ==
    IF getLeftChild(T, x) # NIL THEN Rightmost(T, getLeftChild(T, x))
    ELSE PrevUp(T, x, x)

\* Mutant of getNext: the right child is taken without descending to its
\* leftmost node.
getNext_noDescent(T, x) ==
    IF getRightChild(T, x) # NIL THEN getRightChild(T, x)
    ELSE NextUp(T, x, x)

getNext(T, x) ==
    IF getRightChild(T, x) # NIL THEN Leftmost(T, getRightChild(T, x))
    ELSE NextUp(T, x, x)

\* getNextLargestParent(node): first ancestor reached from a less-than child.
RECURSIVE getNextLargestParent(_, _)
getNextLargestParent(T, x) ==
    IF getParent(T, x) = NIL THEN NIL
    ELSE IF isLessThanParent(T, x) THEN getParent(T, x)
    ELSE getNextLargestParent(T, getParent(T, x))

\* getNextLargestChild(node): leftmost node of the right subtree, or NIL.
getNextLargestChild(T, x) ==
    IF getRightChild(T, x) = NIL THEN NIL ELSE Leftmost(T, getRightChild(T, x))


-----------------------------------------------------------------------------
\* Insertion cases.  Each takes the free node (its parent pointer and
\* relation are set, no slot of the parent holds it yet) and returns
\* [t |-> the tree after the case, r |-> the next free node or the root,
\*  c |-> the name of the case].  The statements of a case are applied in
\* source order: s1, s2, ... each take the tree the statements before them
\* left, and a local is read from the tree at the point the source reads it.

Ret(T, r, c) == [t |-> T, r |-> r, c |-> c]

RetRoot(T, c) == Ret(T, T.root, c)

Failed(T, x, c) == Ret(Check(T, FALSE), x, c)

\* Mutant of addTwoLeft: the free node is returned in place of the root.
addTwoLeft_returnsNode(T, node) ==
    LET right == getParent(T, node)
        s1(U) == Node_setLeftChild(U, right, node)
        s2(U) == setLessThanParent(U, node, TRUE)
        s3(U) == setRed(U, node, TRUE)
    IN Ret(s3(s2(s1(T))), node, "addTwoLeft")

addTwoLeft(T, node) ==
    LET right == getParent(T, node)
        pre == /\ node # NIL
               /\ isBlack(T, node)
               /\ isLessThanParent(T, node)
               /\ right # NIL
               /\ getLeftChild(T, right) = NIL
               /\ isBlack(T, right)
        s1(U) == Node_setLeftChild(U, right, node)
        s2(U) == setLessThanParent(U, node, TRUE)
        s3(U) == setRed(U, node, TRUE)
    IN IF ~pre THEN Failed(T, node, "addTwoLeft")
       ELSE RetRoot(s3(s2(s1(T))), "addTwoLeft")

\* Mutant of addTwoRight: left->setParent( node ) is missing.
addTwoRight_noLeftParent(T, node) ==
    LET left == getParent(T, node)
        child == getLeftChild(T, node)
        s1(U) == Node_setRightChild(U, left, child)
        s2(U) == IF child # NIL
                 THEN setGreaterThanParent(setParent(U, child, left), child)
                 ELSE U
        rest(U) ==
            LET parent == getParent(U, left)
                lessThan == isLessThanParent(U, left)
                s3(V) == IF parent # NIL
                         THEN Node_setChild(V, parent, lessThan, node)
                         ELSE [V EXCEPT !.root = node]
                s4(V) == setLessThanParent(setParent(V, node, parent), node, lessThan)
                s5(V) == Node_setLeftChild(V, node, left)
                s6(V) == setRed(setLessThanParent(V, left, TRUE), left, TRUE)
            IN s6(s5(s4(s3(U))))
    IN RetRoot(rest(s2(s1(T))), "addTwoRight")

\* Mutant of addTwoRight: the node is hung in the right slot as it is, with
\* no rotation.
addTwoRight_attachRight(T, node) ==
    RetRoot(Node_setRightChild(T, getParent(T, node), node), "addTwoRight")

addTwoRight(T, node) ==
    LET left == getParent(T, node)
        pre == /\ node # NIL
               /\ isBlack(T, node)
               /\ isGreaterThanParent(T, node)
               /\ left # NIL
               /\ getRightChild(T, left) = NIL
               /\ isBlack(T, left)
        child == getLeftChild(T, node)
        s1(U) == Node_setRightChild(U, left, child)
        s2(U) == IF child # NIL
                 THEN setGreaterThanParent(setParent(U, child, left), child)
                 ELSE U
        rest(U) ==
            LET parent == getParent(U, left)
                lessThan == isLessThanParent(U, left)
                s3(V) == IF parent # NIL
                         THEN Node_setChild(V, parent, lessThan, node)
                         ELSE [V EXCEPT !.root = node]
                s4(V) == setLessThanParent(setParent(V, node, parent), node, lessThan)
                s5(V) == setParent(Node_setLeftChild(V, node, left), left, node)
                s6(V) == setRed(setLessThanParent(V, left, TRUE), left, TRUE)
            IN s6(s5(s4(s3(U))))
    IN IF ~pre THEN Failed(T, node, "addTwoRight")
       ELSE RetRoot(rest(s2(s1(T))), "addTwoRight")

addThreeLeft(T, node) ==
    LET middle == getParent(T, node)
        right == getParent(T, middle)
        pre == /\ node # NIL
               /\ isBlack(T, node)
               /\ isLessThanParent(T, node)
               /\ middle # NIL
               /\ getLeftChild(T, middle) = NIL
               /\ isLessThanParent(T, middle)
               /\ isRed(T, middle)
               /\ right # NIL
               /\ isBlack(T, right)
        parent == getParent(T, right)
        lessThan == isLessThanParent(T, right)
        s1(U) == IF parent # NIL
                 THEN Node_setChild(U, parent, lessThan, NIL)
                 ELSE [U EXCEPT !.root = middle]
        s2(U) == setLessThanParent(setParent(U, middle, parent), middle, lessThan)
        rest(U) ==
            LET child == getRightChild(U, middle)
                s3(V) == IF child # NIL
                         THEN setLessThanParent(setParent(V, child, right), child, TRUE)
                         ELSE V
                s4(V) == Node_setLeftChild(V, right, child)
                s5(V) == setGreaterThanParent(setParent(V, right, middle), right)
                s6(V) == Node_setLeftChild(Node_setRightChild(V, middle, right), middle, node)
                s7(V) == setBlack(V, middle)
            IN s7(s6(s5(s4(s3(U)))))
    IN IF ~pre THEN Failed(T, node, "addThreeLeft")
       ELSE Ret(rest(s2(s1(T))), middle, "addThreeLeft")

addThreeMiddle(T, node) ==
    LET left == getParent(T, node)
        right == getParent(T, left)
        pre == /\ node # NIL
               /\ isBlack(T, node)
               /\ isGreaterThanParent(T, node)
               /\ left # NIL
               /\ getRightChild(T, left) = NIL
               /\ isLessThanParent(T, left)
               /\ isRed(T, left)
               /\ right # NIL
               /\ isBlack(T, right)
        parent == getParent(T, right)
        lessThan == isLessThanParent(T, right)
        s1(U) == IF parent # NIL
                 THEN Node_setChild(U, parent, lessThan, NIL)
                 ELSE [U EXCEPT !.root = node]
        s2(U) == setLessThanParent(setParent(U, node, parent), node, lessThan)
        rest2(U) ==
            LET child == getRightChild(U, node)
                s5(V) == IF child # NIL
                         THEN setLessThanParent(setParent(V, child, right), child, TRUE)
                         ELSE V
                s6(V) == Node_setLeftChild(V, right, child)
                s7(V) == Node_setRightChild(Node_setLeftChild(V, node, left), node, right)
                s8(V) == setParent(setParent(V, left, node), right, node)
                s9(V) == setGreaterThanParent(setLessThanParent(V, left, TRUE), right)
                s10(V) == setBlack(V, left)
            IN s10(s9(s8(s7(s6(s5(U))))))
        rest1(U) ==
            LET child == getLeftChild(U, node)
                s3(V) == IF child # NIL
                         THEN setGreaterThanParent(setParent(V, child, left), child)
                         ELSE V
                s4(V) == Node_setRightChild(V, left, child)
            IN rest2(s4(s3(U)))
    IN IF ~pre THEN Failed(T, node, "addThreeMiddle")
       ELSE Ret(rest1(s2(s1(T))), node, "addThreeMiddle")

\* Mutant of addThreeRight: left->setBlack() is missing.
addThreeRight_keepsRed(T, node) ==
    LET middle == getParent(T, node)
        s2(U) == Node_setRightChild(U, middle, node)
        rest(U) ==
            LET parent == getParent(U, middle)
                lessThan == isLessThanParent(U, middle)
            IN IF parent # NIL
               THEN Node_setChild(U, parent, lessThan, NIL)
               ELSE [U EXCEPT !.root = middle]
    IN Ret(rest(s2(T)), middle, "addThreeRight")

addThreeRight(T, node) ==
    LET middle == getParent(T, node)
        left == getLeftChild(T, middle)
        pre == /\ node # NIL
               /\ isBlack(T, node)
               /\ isGreaterThanParent(T, node)
               /\ middle # NIL
               /\ isBlack(T, middle)
               /\ getRightChild(T, middle) = NIL
               /\ left # NIL
               /\ isRed(T, left)
               /\ isLessThanParent(T, left)
        s1(U) == setBlack(U, left)
        s2(U) == Node_setRightChild(U, middle, node)
        rest(U) ==
            LET parent == getParent(U, middle)
                lessThan == isLessThanParent(U, middle)
            IN IF parent # NIL
               THEN Node_setChild(U, parent, lessThan, NIL)
               ELSE [U EXCEPT !.root = middle]
    IN IF ~pre THEN Failed(T, node, "addThreeRight")
       ELSE Ret(rest(s2(s1(T))), middle, "addThreeRight")

\* Mutant of add(Node *): the free node is hung in the slot it was found
\* for, with no rebalancing.
addNode_plain(T, node) ==
    RetRoot(Node_setChild(T, getParent(T, node), isLessThanParent(T, node), node), "add")

\* Mutant of add(Node *): the colour of the target is not looked at, and the
\* free node is always added as to a 2-node.
addNode_twoOnly(T, node) ==
    IF isLessThanParent(T, node) THEN addTwoLeft(T, node) ELSE addTwoRight(T, node)

\* add(Node *): one iteration of add's loop, choosing the case.
addNode(T, node) ==
    LET target == getParent(T, node)
    IN IF target = NIL THEN Failed(T, node, "add")
       ELSE IF isBlack(T, target)
       THEN IF isLessThanParent(T, node) THEN addTwoLeft(T, node)
            ELSE LET left == getLeftChild(T, target)
                 IN IF left = NIL \/ isBlack(T, left)
                    THEN addTwoRight(T, node)
                    ELSE addThreeRight(T, node)
       ELSE IF isLessThanParent(T, node) THEN addThreeLeft(T, node)
            ELSE addThreeMiddle(T, node)

-----------------------------------------------------------------------------
\* swap(first, second): exchange the structural positions of two nodes,
\* statement by statement (each read sees the writes before it, which is
\* what makes the exchange come out right when second is first's child).

\* The left children (lines 655-668).
swapLeft(T, first, second) ==
    LET node1 == getLeftChild(T, first)
        node2 == getLeftChild(T, second)
        s1(V) == IF node1 # NIL THEN setParent(V, node1, second) ELSE V
        s2(V) == IF node2 # NIL THEN setParent(V, node2, first) ELSE V
        s3(V) == Node_setLeftChild(V, first, node2)
        s4(V) == Node_setLeftChild(V, second, node1)
    IN s4(s3(s2(s1(T))))

\* The right children (lines 669-682).
swapRight(T, first, second) ==
    LET node1 == getRightChild(T, first)
        node2 == getRightChild(T, second)
        s1(V) == IF node1 # NIL THEN setParent(V, node1, second) ELSE V
        s2(V) == IF node2 # NIL THEN setParent(V, node2, first) ELSE V
        s3(V) == Node_setRightChild(V, first, node2)
        s4(V) == Node_setRightChild(V, second, node1)
    IN s4(s3(s2(s1(T))))

\* The parents and their slots (lines 683-696).
swapParent(T, first, second) ==
    LET node1 == getParent(T, first)
        node2 == getParent(T, second)
        s1(V) == IF node1 # NIL
                 THEN Node_setChild(V, node1, isLessThanParent(V, first), second)
                 ELSE V
        s2(V) == IF node2 # NIL
                 THEN Node_setChild(V, node2, isLessThanParent(V, second), first)
                 ELSE V
        s3(V) == setParent(V, first, node2)
        s4(V) == setParent(V, second, node1)
    IN s4(s3(s2(s1(T))))

\* The colours (lines 697-699).
swapRed(T, first, second) ==
    LET flag == isRed(T, first)
        s1(V) == setRed(V, first, isRed(V, second))
        s2(V) == setRed(V, second, flag)
    IN s2(s1(T))

\* The relation bits (lines 700-702).
swapLess(T, first, second) ==
    LET flag == isLessThanParent(T, first)
        s1(V) == setLessThanParent(V, first, isLessThanParent(V, second))
        s2(V) == setLessThanParent(V, second, flag)
    IN s2(s1(T))

\* Mutant of swap: the two keys are exchanged and the nodes stay where they
\* are.
swap_keysOnly(T, first, second) ==
    [T EXCEPT !.n[first].key = T.n[second].key, !.n[second].key = T.n[first].key]

\* Mutant of swap: the colours are not exchanged.
swap_noRed(T, first, second) ==
    swapLess(swapParent(swapRight(swapLeft(T, first, second), first, second),
                        first, second), first, second)

\* Mutant of swap: the relation bits are not exchanged.
swap_noLess(T, first, second) ==
    swapRed(swapParent(swapRight(swapLeft(T, first, second), first, second),
                       first, second), first, second)

swap(T, first, second) ==
    swapLess(swapRed(swapParent(swapRight(swapLeft(T, first, second), first, second),
                                first, second), first, second), first, second)

-----------------------------------------------------------------------------
\* Removal cases.  node is the deficient node: a black node whose only
\* subtree, if any, hangs off its left slot.  Each case returns
\* [t, r, c] like the insertion cases; r is node itself when the deficiency
\* moves one level up, and the root when the walk is over.

\* Mutant of remTwoLeft_Two: node->setParent( x ) is missing.
remTwoLeft_Two_noUp(T, node) ==
    LET a == getParent(T, node)
        b == getRightChild(T, a)
        x == getParent(T, a)
        xLess == isLessThanParent(T, a)
        s1(U) == setLeftChild(U, a, getLeftChild(U, node))
        s2(U) == setRightChild(U, a, getLeftChild(U, b))
        s3(U) == setLeftChild(U, b, a)
        s4(U) == setRed(U, a, TRUE)
        up(U) == setLessThanParent(Node_setLeftChild(U, node, b), node, xLess)
        top(U) == Delete([setParent(U, b, NIL) EXCEPT !.root = b], node)
    IN IF x # NIL THEN Ret(up(s4(s3(s2(s1(T))))), node, "remTwoLeft_Two")
       ELSE RetRoot(top(s4(s3(s2(s1(T))))), "remTwoLeft_Two")

remTwoLeft_Two(T, node) ==
    LET a == getParent(T, node)
        b == getRightChild(T, a)
        pre == /\ a # NIL /\ isBlack(T, a)
               /\ b # NIL /\ isBlack(T, b)
        x == getParent(T, a)
        xLess == isLessThanParent(T, a)
        s1(U) == setLeftChild(U, a, getLeftChild(U, node))
        s2(U) == setRightChild(U, a, getLeftChild(U, b))
        s3(U) == setLeftChild(U, b, a)
        s4(U) == setRed(U, a, TRUE)
        up(U) == setLessThanParent(setParent(Node_setLeftChild(U, node, b), node, x),
                                   node, xLess)
        top(U) == Delete([setParent(U, b, NIL) EXCEPT !.root = b], node)
    IN IF ~pre THEN Failed(T, node, "remTwoLeft_Two")
       ELSE IF x # NIL THEN Ret(up(s4(s3(s2(s1(T))))), node, "remTwoLeft_Two")
       ELSE RetRoot(top(s4(s3(s2(s1(T))))), "remTwoLeft_Two")

remTwoLeft_Three(T, node) ==
    LET a == getParent(T, node)
        c == getRightChild(T, a)
        b == getLeftChild(T, c)
        pre == /\ a # NIL /\ isBlack(T, a)
               /\ c # NIL /\ isBlack(T, c)
               /\ b # NIL /\ isRed(T, b)
        x == getParent(T, a)
        xLess == isLessThanParent(T, a)
        s1(U) == setLeftChild(U, a, getLeftChild(U, node))
        s2(U) == setRightChild(U, a, getLeftChild(U, b))
        s3(U) == setLeftChild(U, c, getRightChild(U, b))
        s4(U) == setLeftChild(U, b, a)
        s5(U) == setRightChild(U, b, c)
        s6(U) == setBlack(U, b)
        s7(U) == IF x # NIL
                 THEN setChild(U, x, b, xLess)
                 ELSE [setParent(U, b, NIL) EXCEPT !.root = b]
        s8(U) == Delete(U, node)
    IN IF ~pre THEN Failed(T, node, "remTwoLeft_Three")
       ELSE RetRoot(s8(s7(s6(s5(s4(s3(s2(s1(T)))))))), "remTwoLeft_Three")

remTwoLeft(T, node) ==
    LET sibling == getRightChild(T, getParent(T, node))
        nephew == getLeftChild(T, sibling)
    IN IF sibling = NIL THEN Failed(T, node, "remTwoLeft")
       ELSE IF nephew # NIL /\ isRed(T, nephew) THEN remTwoLeft_Three(T, node)
       ELSE remTwoLeft_Two(T, node)

\* Mutant of remTwoRight_Two: b->setRed() is missing.
remTwoRight_Two_noRed(T, node) ==
    LET a == getParent(T, node)
        x == getParent(T, a)
        xLess == isLessThanParent(T, a)
        s1(U) == setRightChild(U, a, getLeftChild(U, node))
        up(U) == setLessThanParent(setParent(Node_setLeftChild(U, node, a), node, x),
                                   node, xLess)
        top(U) == Delete([setParent(U, a, NIL) EXCEPT !.root = a], node)
    IN IF x # NIL THEN Ret(up(s1(T)), node, "remTwoRight_Two")
       ELSE RetRoot(top(s1(T)), "remTwoRight_Two")

remTwoRight_Two(T, node) ==
    LET a == getParent(T, node)
        b == getLeftChild(T, a)
        pre == /\ a # NIL /\ isBlack(T, a)
               /\ b # NIL /\ isBlack(T, b)
        x == getParent(T, a)
        xLess == isLessThanParent(T, a)
        s1(U) == setRightChild(U, a, getLeftChild(U, node))
        s2(U) == setRed(U, b, TRUE)
        up(U) == setLessThanParent(setParent(Node_setLeftChild(U, node, a), node, x),
                                   node, xLess)
        top(U) == Delete([setParent(U, a, NIL) EXCEPT !.root = a], node)
    IN IF ~pre THEN Failed(T, node, "remTwoRight_Two")
       ELSE IF x # NIL THEN Ret(up(s2(s1(T))), node, "remTwoRight_Two")
       ELSE RetRoot(top(s2(s1(T))), "remTwoRight_Two")

\* Mutant of remTwoRight_Three: b->setBlack() is missing.
remTwoRight_Three_noBlack(T, node) ==
    LET a == getParent(T, node)
        c == getLeftChild(T, a)
        x == getParent(T, a)
        xLess == isLessThanParent(T, a)
        s1(U) == setRightChild(U, a, getLeftChild(U, node))
        s2(U) == setLeftChild(U, a, getRightChild(U, c))
        s3(U) == setRightChild(U, c, a)
        s5(U) == IF x # NIL
                 THEN setChild(U, x, c, xLess)
                 ELSE [setParent(U, c, NIL) EXCEPT !.root = c]
        s6(U) == Delete(U, node)
    IN RetRoot(s6(s5(s3(s2(s1(T))))), "remTwoRight_Three")

remTwoRight_Three(T, node) ==
    LET a == getParent(T, node)
        c == getLeftChild(T, a)
        b == getLeftChild(T, c)
        pre == /\ a # NIL /\ isBlack(T, a)
               /\ c # NIL /\ isBlack(T, c)
               /\ b # NIL /\ isRed(T, b)
        x == getParent(T, a)
        xLess == isLessThanParent(T, a)
        s1(U) == setRightChild(U, a, getLeftChild(U, node))
        s2(U) == setLeftChild(U, a, getRightChild(U, c))
        s3(U) == setRightChild(U, c, a)
        s4(U) == setBlack(U, b)
        s5(U) == IF x # NIL
                 THEN setChild(U, x, c, xLess)
                 ELSE [setParent(U, c, NIL) EXCEPT !.root = c]
        s6(U) == Delete(U, node)
    IN IF ~pre THEN Failed(T, node, "remTwoRight_Three")
       ELSE RetRoot(s6(s5(s4(s3(s2(s1(T)))))), "remTwoRight_Three")

remTwoRight(T, node) ==
    LET sibling == getLeftChild(T, getParent(T, node))
        nephew == getLeftChild(T, sibling)
    IN IF sibling = NIL THEN Failed(T, node, "remTwoRight")
       ELSE IF nephew # NIL /\ isRed(T, nephew) THEN remTwoRight_Three(T, node)
       ELSE remTwoRight_Two(T, node)

\* Mutant of remThreeLeft_Two_X: the node is unlinked but not deleted.
remThreeLeft_Two_X_noDelete(T, node) ==
    LET a == getParent(T, node)
        b == getParent(T, a)
        c == getRightChild(T, a)
        pre == /\ a # NIL /\ isRed(T, a)
               /\ b # NIL /\ isBlack(T, b)
               /\ c # NIL /\ isBlack(T, c)
        s1(U) == setLeftChild(U, a, getLeftChild(U, node))
        s2(U) == setRightChild(U, a, getLeftChild(U, c))
        s3(U) == setLeftChild(U, c, a)
        s4(U) == setLeftChild(U, b, c)
    IN IF ~pre THEN Failed(T, node, "remThreeLeft_Two_X")
       ELSE RetRoot(s4(s3(s2(s1(T)))), "remThreeLeft_Two_X")

remThreeLeft_Two_X(T, node) ==
    LET a == getParent(T, node)
        b == getParent(T, a)
        c == getRightChild(T, a)
        pre == /\ a # NIL /\ isRed(T, a)
               /\ b # NIL /\ isBlack(T, b)
               /\ c # NIL /\ isBlack(T, c)
        s1(U) == setLeftChild(U, a, getLeftChild(U, node))
        s2(U) == setRightChild(U, a, getLeftChild(U, c))
        s3(U) == setLeftChild(U, c, a)
        s4(U) == setLeftChild(U, b, c)
        s5(U) == Delete(U, node)
    IN IF ~pre THEN Failed(T, node, "remThreeLeft_Two_X")
       ELSE RetRoot(s5(s4(s3(s2(s1(T))))), "remThreeLeft_Two_X")

remThreeLeft_Three_X(T, node) ==
    LET a == getParent(T, node)
        b == getParent(T, a)
        d == getRightChild(T, a)
        c == getLeftChild(T, d)
        pre == /\ a # NIL /\ isRed(T, a)
               /\ b # NIL /\ isBlack(T, b)
               /\ d # NIL /\ isBlack(T, d)
               /\ c # NIL /\ isRed(T, c)
        s1(U) == setLeftChild(U, a, getLeftChild(U, node))
        s2(U) == setRightChild(U, a, getLeftChild(U, c))
        s3(U) == setLeftChild(U, d, getRightChild(U, c))
        s4(U) == setLeftChild(U, c, a)
        s5(U) == setRightChild(U, c, d)
        s6(U) == setLeftChild(U, b, c)
        s7(U) == setBlack(U, a)
        s8(U) == Delete(U, node)
    IN IF ~pre THEN Failed(T, node, "remThreeLeft_Three_X")
       ELSE RetRoot(s8(s7(s6(s5(s4(s3(s2(s1(T)))))))), "remThreeLeft_Three_X")

remThreeLeft(T, node) ==
    LET a == getParent(T, node)
        d == getRightChild(T, a)
        c == getLeftChild(T, d)
        pre == /\ a # NIL /\ isRed(T, a)
               /\ d # NIL /\ isBlack(T, d)
    IN IF ~pre THEN Failed(T, node, "remThreeLeft")
       ELSE IF c # NIL /\ isRed(T, c) THEN remThreeLeft_Three_X(T, node)
       ELSE remThreeLeft_Two_X(T, node)

\* Mutant of remThreeMiddle_Two_X: a->setBlack() is missing.
remThreeMiddle_Two_X_noBlack(T, node) ==
    LET a == getParent(T, node)
        c == getLeftChild(T, a)
        s1(U) == setRightChild(U, a, getLeftChild(U, node))
        s3(U) == setRed(U, c, TRUE)
        s4(U) == Delete(U, node)
    IN RetRoot(s4(s3(s1(T))), "remThreeMiddle_Two_X")

remThreeMiddle_Two_X(T, node) ==
    LET a == getParent(T, node)
        b == getParent(T, a)
        c == getLeftChild(T, a)
        pre == /\ a # NIL /\ isRed(T, a)
               /\ b # NIL /\ isBlack(T, b)
               /\ c # NIL /\ isBlack(T, c)
        s1(U) == setRightChild(U, a, getLeftChild(U, node))
        s2(U) == setBlack(U, a)
        s3(U) == setRed(U, c, TRUE)
        s4(U) == Delete(U, node)
    IN IF ~pre THEN Failed(T, node, "remThreeMiddle_Two_X")
       ELSE RetRoot(s4(s3(s2(s1(T)))), "remThreeMiddle_Two_X")

remThreeMiddle_Three_X(T, node) ==
    LET a == getParent(T, node)
        b == getParent(T, a)
        d == getLeftChild(T, a)
        c == getLeftChild(T, d)
        pre == /\ a # NIL /\ isRed(T, a)
               /\ b # NIL /\ isBlack(T, b)
               /\ d # NIL /\ isBlack(T, d)
               /\ c # NIL /\ isRed(T, c)
        s1(U) == setLeftChild(U, a, getRightChild(U, d))
        s2(U) == setRightChild(U, a, getLeftChild(U, node))
        s3(U) == setRightChild(U, d, a)
        s4(U) == setLeftChild(U, b, d)
        s5(U) == setBlack(setBlack(U, a), c)
        s6(U) == setRed(U, d, TRUE)
        s7(U) == Delete(U, node)
    IN IF ~pre THEN Failed(T, node, "remThreeMiddle_Three_X")
       ELSE RetRoot(s7(s6(s5(s4(s3(s2(s1(T))))))), "remThreeMiddle_Three_X")

remThreeMiddle(T, node) ==
    LET a == getParent(T, node)
        d == getLeftChild(T, a)
        c == getLeftChild(T, d)
        pre == /\ a # NIL /\ isRed(T, a)
               /\ d # NIL /\ isBlack(T, d)
    IN IF ~pre THEN Failed(T, node, "remThreeMiddle")
       ELSE IF c # NIL /\ isRed(T, c) THEN remThreeMiddle_Three_X(T, node)
       ELSE remThreeMiddle_Two_X(T, node)

remThreeRight_X_Two(T, node) ==
    LET b == getParent(T, node)
        a == getLeftChild(T, b)
        c == getRightChild(T, a)
        pre == /\ b # NIL /\ isBlack(T, b)
               /\ a # NIL /\ isRed(T, a)
               /\ c # NIL /\ isBlack(T, c)
               /\ (getLeftChild(T, c) = NIL \/ isBlack(T, getLeftChild(T, c)))
        x == getParent(T, b)
        xLess == isLessThanParent(T, b)
        s1(U) == setLeftChild(U, b, c)
        s2(U) == setRightChild(U, b, getLeftChild(U, node))
        s3(U) == setRightChild(U, a, b)
        s4(U) == setBlack(U, a)
        s5(U) == setRed(U, c, TRUE)
        s6(U) == IF x # NIL
                 THEN setChild(U, x, a, xLess)
                 ELSE [setParent(U, a, NIL) EXCEPT !.root = a]
        s7(U) == Delete(U, node)
    IN IF ~pre THEN Failed(T, node, "remThreeRight_X_Two")
       ELSE RetRoot(s7(s6(s5(s4(s3(s2(s1(T))))))), "remThreeRight_X_Two")

remThreeRight_X_Three(T, node) ==
    LET b == getParent(T, node)
        a == getLeftChild(T, b)
        d == getRightChild(T, a)
        c == getLeftChild(T, d)
        pre == /\ b # NIL /\ isBlack(T, b)
               /\ a # NIL /\ isRed(T, a)
               /\ d # NIL /\ isBlack(T, d)
               /\ c # NIL /\ isRed(T, c)
        x == getParent(T, b)
        xLess == isLessThanParent(T, b)
        s1(U) == setLeftChild(U, b, getRightChild(U, d))
        s2(U) == setRightChild(U, b, getLeftChild(U, node))
        s3(U) == setRightChild(U, a, c)
        s4(U) == setLeftChild(U, d, a)
        s5(U) == setRightChild(U, d, b)
        s6(U) == setBlack(U, c)
        s7(U) == IF x # NIL
                 THEN setChild(U, x, d, xLess)
                 ELSE [setParent(U, d, NIL) EXCEPT !.root = d]
        s8(U) == Delete(U, node)
    IN IF ~pre THEN Failed(T, node, "remThreeRight_X_Three")
       ELSE RetRoot(s8(s7(s6(s5(s4(s3(s2(s1(T)))))))), "remThreeRight_X_Three")

remThreeRight(T, node) ==
    LET b == getParent(T, node)
        a == getLeftChild(T, b)
        f == getRightChild(T, a)
        e == getLeftChild(T, f)
        pre == /\ b # NIL /\ isBlack(T, b)
               /\ a # NIL /\ isRed(T, a)
               /\ f # NIL /\ isBlack(T, f)
    IN IF ~pre THEN Failed(T, node, "remThreeRight")
       ELSE IF e # NIL /\ isRed(T, e) THEN remThreeRight_X_Three(T, node)
       ELSE remThreeRight_X_Two(T, node)

\* rem(node): one iteration of remove's loop, choosing the case.
rem(T, node) ==
    LET parent == getParent(T, node)
    IN IF parent = NIL THEN Failed(T, node, "rem")
       ELSE IF isBlack(T, parent)
       THEN IF isLessThanParent(T, node) THEN remTwoLeft(T, node)
            ELSE LET leftChild == getLeftChild(T, parent)
                 IN IF leftChild # NIL /\ isRed(T, leftChild)
                    THEN remThreeRight(T, node)
                    ELSE remTwoRight(T, node)
       ELSE IF isLessThanParent(T, node) THEN remThreeLeft(T, node)
       ELSE remThreeMiddle(T, node)

-----------------------------------------------------------------------------
\* validate(): the test oracle.

\* The checks validate makes on one node.
validateNode(T, node) ==
    LET parent == getParent(T, node)
        left == getLeftChild(T, node)
        right == getRightChild(T, node)
        lessThan == isLessThanParent(T, node)
        black == isBlack(T, node)
    IN /\ parent # NIL =>
            IF lessThan THEN less(getKey(T, node), getKey(T, parent))
            ELSE ~less(getKey(T, node), getKey(T, parent))
       /\ ~black =>
            /\ parent # NIL
            /\ isBlack(T, parent)
            /\ lessThan
            /\ less(getKey(T, node), getKey(T, parent))
       /\ left # NIL =>
            IF isRed(T, left)
            THEN right # NIL =>
                    /\ getLeftChild(T, left) # NIL
                    /\ getRightChild(T, left) # NIL
            ELSE right # NIL
       /\ ~(right # NIL /\ left = NIL)

\* "Go to smallest value node": follow getPrevious until it returns its
\* argument.  fuel bounds the walk; a walk that does not end never returns
\* true.
RECURSIVE validateFirst(_, _, _)
validateFirst(T, node, fuel) ==
    LET next == getPrevious(T, node)
    IN IF node = next THEN node
       ELSE IF fuel = 0 THEN NIL
       ELSE validateFirst(T, next, fuel - 1)

\* "Iterate through all nodes": check node, then move to getNext, until
\* getNext returns its argument.
RECURSIVE validateWalk(_, _, _)
validateWalk(T, node, fuel) ==
    LET next == getNext(T, node)
    IN IF node = next THEN TRUE
       ELSE IF fuel = 0 THEN FALSE
       ELSE validateNode(T, node) /\ validateWalk(T, next, fuel - 1)

validate(T) ==
    IF T.root = NIL THEN TRUE
    ELSE IF ~isBlack(T, T.root) THEN FALSE
    ELSE LET first == validateFirst(T, T.root, MaxKey + 1)
         IN first # NIL /\ validateWalk(T, first, MaxKey + 1)

-----------------------------------------------------------------------------
\* remove(Node * node, Node * & next).

\* Mutant of the root branch of remove: left->setBlack() is missing.
removeRoot_noBlack(T, size, node0) ==
    LET left == getLeftChild(T, node0)
        s1(U) == IF left # NIL /\ isRed(U, left)
                 THEN setParent(Check(U, size = 1), left, NIL)
                 ELSE U
        s2(U) == [U EXCEPT !.root = left]
    IN Delete(s2(s1(Check(T, isBlack(T, node0)))), node0)

\* "Node is both leaf and root" (lines 407-421); size is m_size as already
\* decremented.
removeRoot(T, size, node0) ==
    LET left == getLeftChild(T, node0)
        s1(U) == IF left # NIL /\ isRed(U, left)
                 THEN setBlack(setParent(Check(U, size = 1), left, NIL), left)
                 ELSE U
        s2(U) == [U EXCEPT !.root = left]
    IN Delete(s2(s1(Check(T, isBlack(T, node0)))), node0)

\* Mutant of the successor exchange: the node is left where it is.
removeSwap_none(T, node0) == T

\* "Check for leaf node" (lines 346-358): a node with a right subtree is
\* exchanged with the leftmost node of that subtree, which becomes the root
\* if the node was.
removeSwap(T, node0) ==
    LET succ == getNextLargestChild(T, node0)
        fixRoot(S) == IF node0 = S.root THEN [S EXCEPT !.root = succ] ELSE S
    IN IF succ # NIL THEN fixRoot(swap(T, node0, succ)) ELSE T

\* remove(Node * node, Node * & next) up to its loop:
\* [t, size, next, node, loop] where loop says the walk `while( node !=
\* m_root )` is entered with node.

removeNode(T, size, node0) ==
    LET succ == getNextLargestChild(T, node0)
        leaf(U) ==
            LET parent == getParent(U, node0)
                left == getLeftChild(U, node0)
                nodeLess == isLessThanParent(U, node0)
                next == IF parent = NIL THEN succ
                        ELSE IF nodeLess THEN parent
                        ELSE getNextLargestParent(U, parent)
                Out(t, loop) ==
                    [t |-> t, size |-> size - 1, next |-> next, node |-> node0,
                     loop |-> loop]
                black3(V) == setBlack(setChild(V, parent, left, nodeLess), left)
            IN IF parent # NIL
               THEN IF isBlack(U, node0)
                    THEN IF left # NIL /\ isRed(U, left)
                         THEN \* black participant in a leaf 3-node
                              Out(Delete(black3(Check(U, getLeftChild(U, left) = NIL)), node0),
                                  FALSE)
                         ELSE \* leaf 2-node: the walk
                              Out(Check(U, node0 # U.root), node0 # U.root)
                    ELSE \* red participant in a leaf 3-node
                         Out(Delete(Node_setLeftChild(Check(U, left = NIL), parent, NIL), node0),
                             FALSE)
               ELSE \* leaf and root
                    Out(removeRoot(U, size - 1, node0), FALSE)
    IN leaf(removeSwap(T, node0))

-----------------------------------------------------------------------------
\* The state machine.

NoRet == [result |-> FALSE, node |-> NIL, next |-> NIL]
NoCall == [op |-> "none", key |-> 0, node |-> NIL, next |-> NIL]

Here == Tree(nodes, live, m_root)

Init ==
    /\ nodes = [x \in Node |-> Blank]
    /\ live = {}
    /\ m_root = NIL
    /\ m_size = 0
    /\ pc = "idle"
    /\ cur = NIL
    /\ call = NoCall
    /\ ret = NoRet
    /\ lastCase = "none"
    /\ abs = {}

\* Store tree T back into the object.
Store(T) ==
    /\ nodes' = T.n
    /\ live' = T.live
    /\ m_root' = T.root

\* A failed assertion: the program stops.
Abort ==
    /\ pc' = "abort"
    /\ UNCHANGED <<nodes, live, m_root, m_size, cur, call, ret, lastCase, abs>>

\* add(key, node) on an empty container.
AddFirst(k, T) ==
    /\ Store([T EXCEPT !.root = NewAddr(Here, k)])
    /\ m_size' = 1
    /\ call' = [op |-> "add", key |-> k, node |-> NewAddr(Here, k), next |-> NIL]
    /\ ret' = [result |-> TRUE, node |-> NewAddr(Here, k), next |-> NIL]
    /\ abs' = abs \cup {k}
    /\ lastCase' = "none"
    /\ UNCHANGED <<pc, cur>>

\* Mutant of add(key, node): m_size is raised before the search result is
\* looked at.
AddFound_countsDuplicate(k, f) ==
    IF f.found
    THEN /\ call' = [op |-> "add", key |-> k, node |-> f.nearest, next |-> NIL]
         /\ ret' = [result |-> FALSE, node |-> f.nearest, next |-> NIL]
         /\ lastCase' = "none"
         /\ m_size' = m_size + 1
         /\ UNCHANGED <<nodes, live, m_root, pc, cur, abs>>
    ELSE /\ Store(setLessThanParent(setParent(New(Here, k), NewAddr(Here, k), f.nearest),
                                    NewAddr(Here, k), f.lessThan))
         /\ m_size' = m_size + 1
         /\ call' = [op |-> "add", key |-> k, node |-> NewAddr(Here, k), next |-> NIL]
         /\ ret' = NoRet
         /\ cur' = NewAddr(Here, k)
         /\ pc' = "add"
         /\ lastCase' = "none"
         /\ UNCHANGED abs

\* add(key, node) after its search: f is what find(key, nearest, lessThan)
\* gave.
AddFound(k, f) ==
    IF f.found
    THEN /\ call' = [op |-> "add", key |-> k, node |-> f.nearest, next |-> NIL]
         /\ ret' = [result |-> FALSE, node |-> f.nearest, next |-> NIL]
         /\ lastCase' = "none"
         /\ UNCHANGED <<nodes, live, m_root, m_size, pc, cur, abs>>
    ELSE /\ Store(setLessThanParent(setParent(New(Here, k), NewAddr(Here, k), f.nearest),
                                    NewAddr(Here, k), f.lessThan))
         /\ m_size' = m_size + 1
         /\ call' = [op |-> "add", key |-> k, node |-> NewAddr(Here, k), next |-> NIL]
         /\ ret' = NoRet
         /\ cur' = NewAddr(Here, k)
         /\ pc' = "add"
         /\ lastCase' = "none"
         /\ UNCHANGED abs

\* add(key, node) up to its loop `while( freeNode != m_root )`.
Add(k) ==
    /\ pc = "idle"
    /\ IF m_root = NIL
       THEN AddFirst(k, New(Here, k))
       ELSE AddFound(k, findNearest(Here, k))

\* The end of one iteration of add's loop, R being what add( freeNode )
\* returned: the call returns true when freeNode is the root.
AddLoop(R) ==
    IF ~R.t.ok THEN Abort
    ELSE /\ Store(R.t)
         /\ lastCase' = R.c
         /\ UNCHANGED <<m_size, call>>
         /\ IF R.r = R.t.root
            THEN /\ pc' = "idle"
                 /\ cur' = NIL
                 /\ ret' = [result |-> TRUE, node |-> call.node, next |-> NIL]
                 /\ abs' = abs \cup {call.key}
            ELSE /\ pc' = "add"
                 /\ cur' = R.r
                 /\ UNCHANGED <<ret, abs>>

\* One iteration of add's loop: freeNode = add( freeNode ).
AddStep ==
    /\ pc = "add"
    /\ AddLoop(addNode(Here, cur))

\* remove(node, next) from its first statement to its loop or its return, R
\* being what the statements before the loop did.
RemoveFound(k, node, R) ==
    IF ~R.t.ok THEN Abort
    ELSE /\ Store(R.t)
         /\ m_size' = R.size
         /\ call' = [op |-> "remove", key |-> k, node |-> node, next |-> R.next]
         /\ lastCase' = "none"
         /\ IF R.loop
            THEN /\ pc' = "rem"
                 /\ cur' = R.node
                 /\ ret' = NoRet
                 /\ UNCHANGED abs
            ELSE /\ ret' = [result |-> TRUE, node |-> NIL, next |-> R.next]
                 /\ abs' = abs \ {k}
                 /\ UNCHANGED <<pc, cur>>

\* Mutant of remove(key, next): m_size is lowered before the search result
\* is looked at.
RemoveAt_countsAbsent(k, node) ==
    IF node = NIL
    THEN /\ call' = [op |-> "remove", key |-> k, node |-> NIL, next |-> NIL]
         /\ ret' = NoRet
         /\ lastCase' = "none"
         /\ m_size' = m_size - 1
         /\ UNCHANGED <<nodes, live, m_root, pc, cur, abs>>
    ELSE RemoveFound(k, node, removeNode(Here, m_size, node))

\* remove(key, next): find, then remove(node, next).
RemoveAt(k, node) ==
    IF node = NIL
    THEN /\ call' = [op |-> "remove", key |-> k, node |-> NIL, next |-> NIL]
         /\ ret' = NoRet
         /\ lastCase' = "none"
         /\ UNCHANGED <<nodes, live, m_root, m_size, pc, cur, abs>>
    ELSE RemoveFound(k, node, removeNode(Here, m_size, node))

Remove(k) ==
    /\ pc = "idle"
    /\ RemoveAt(k, find(Here, k))

\* The end of one iteration of remove's loop, R being what rem( node )
\* returned: the call returns true when node is the root.
RemLoop(R) ==
    IF ~R.t.ok THEN Abort
    ELSE /\ Store(R.t)
         /\ lastCase' = R.c
         /\ UNCHANGED <<m_size, call>>
         /\ IF R.r = R.t.root
            THEN /\ pc' = "idle"
                 /\ cur' = NIL
                 /\ ret' = [result |-> TRUE, node |-> NIL, next |-> call.next]
                 /\ abs' = abs \ {call.key}
            ELSE /\ pc' = "rem"
                 /\ cur' = R.r
                 /\ UNCHANGED <<ret, abs>>

\* One iteration of remove's loop: node = rem( node ).
RemStep ==
    /\ pc = "rem"
    /\ RemLoop(rem(Here, cur))

\* remove(node, next) called with the handle of a node that is in the tree.
RemoveNode(node) ==
    /\ pc = "idle"
    /\ node \in live
    /\ RemoveFound(getKey(Here, node), node, removeNode(Here, m_size, node))

AddCall == \E k \in Keys : Add(k)
RemoveCall == \E k \in Keys : Remove(k)
RemoveNodeCall == \E node \in Node : RemoveNode(node)

Next == AddCall \/ AddStep \/ RemoveCall \/ RemoveNodeCall \/ RemStep

Spec == Init /\ [][Next]_vars

-----------------------------------------------------------------------------
\* validate() as a checker.  Its inputs are the trees add and remove build
\* over the keys 1..MaxFaultKey, each with one field set wrong: the colour
\* of a node, the relation bit of a node, or m_size.  validate() is then
\* called on the tree; it is a const member function and changes nothing.

FaultKeys == 1..MaxFaultKey

AddFaultKey == \E k \in FaultKeys : Add(k)
RemoveFaultKey == \E k \in FaultKeys : Remove(k)

\* The tree with the fields fn and the size sz is handed to validate().
Faulty(x, fn, sz) ==
    /\ nodes' = fn
    /\ m_size' = sz
    /\ pc' = "fault"
    /\ call' = [op |-> "validate", key |-> 0, node |-> x, next |-> NIL]
    /\ ret' = NoRet
    /\ UNCHANGED <<live, m_root, cur, lastCase, abs>>

ColourFault ==
    /\ pc = "idle"
    /\ \E x \in live : Faulty(x, [nodes EXCEPT ![x].red = ~@], m_size)

RelationFault ==
    /\ pc = "idle"
    /\ \E x \in live : Faulty(x, [nodes EXCEPT ![x].less = ~@], m_size)

SizeFault ==
    /\ pc = "idle"
    /\ Faulty(NIL, nodes, m_size + 1)

\* validate() const on the tree as it is.
ValidateCall ==
    /\ pc = "fault"
    /\ pc' = "validated"
    /\ ret' = [result |-> validate(Here), node |-> NIL, next |-> NIL]
    /\ UNCHANGED <<nodes, live, m_root, m_size, cur, call, lastCase, abs>>

NextValidate ==
    \/ AddFaultKey
    \/ AddStep
    \/ RemoveFaultKey
    \/ RemStep
    \/ ColourFault
    \/ RelationFault
    \/ SizeFault
    \/ ValidateCall

SpecValidate == Init /\ [][NextValidate]_vars

-----------------------------------------------------------------------------
\* What the properties speak of.

\* The tree after the step.
HereNext == Tree(nodes', live', m_root')

\* The nodes reachable from the root through child pointers.
RECURSIVE ReachFrom(_, _, _)
ReachFrom(T, frontier, seen) ==
    IF frontier = {} THEN seen
    ELSE LET kids == {getLeftChild(T, x) : x \in frontier}
                     \cup {getRightChild(T, x) : x \in frontier}
             fresh == (kids \ {NIL}) \ (seen \cup frontier)
         IN ReachFrom(T, fresh, seen \cup frontier)

Reachable(T) == IF T.root = NIL THEN {} ELSE ReachFrom(T, {T.root}, {})

\* The keys met walking from node by getNext until it returns its argument;
\* a walk longer than the heap ends with the key 0, which no node holds.
RECURSIVE KeysFrom(_, _, _)
KeysFrom(T, node, fuel) ==
    LET next == getNext(T, node)
    IN IF next = node THEN <<getKey(T, node)>>
       ELSE IF fuel = 0 THEN <<getKey(T, node), 0>>
       ELSE <<getKey(T, node)>> \o KeysFrom(T, next, fuel - 1)

\* The successor walk from the minimum node.
InOrder(T) ==
    IF T.root = NIL THEN <<>> ELSE KeysFrom(T, Leftmost(T, T.root), MaxKey + 1)

Idle == pc = "idle"

\* A call has just returned: a step that ends in the idle state.
Returns == pc' = "idle"

-----------------------------------------------------------------------------
\* C1: from the empty tree, add and remove make the tree behave as a set:
\* add returns true exactly when the key was absent, remove returns true
\* exactly when it was present, and between calls find(k) gives a node whose
\* key is k for the keys of the set and no node for the others.
C1_FindIsMembership ==
    Idle => \A k \in Keys :
        LET x == find(Here, k)
        IN IF k \in abs THEN x # NIL /\ x \in live /\ getKey(Here, x) = k
           ELSE x = NIL

C1_ResultIsMembership ==
    Returns =>
        /\ call'.op = "add" => (ret'.result <=> call'.key \notin abs)
        /\ call'.op = "remove" => (ret'.result <=> call'.key \in abs)
        /\ abs' = IF call'.op = "add" THEN abs \cup {call'.key} ELSE abs \ {call'.key}

\* C1: find agrees with the set between calls, and every call returns what
\* the set says and updates the set accordingly.
C1_SetBehaviour == [](C1_FindIsMembership) /\ [][C1_ResultIsMembership]_vars

C1_Witness ==
    /\ Idle
    /\ call.op = "remove"
    /\ ret.result
    /\ lastCase = "remTwoLeft_Two"
    /\ Cardinality(abs) >= 3
    /\ find(Here, call.key) = NIL

\* C2: between calls, the successor walk from the minimum node visits every
\* key of the set exactly once, in strictly increasing order.
C2_InOrderSorted ==
    Idle => LET s == InOrder(Here)
            IN /\ Len(s) = Cardinality(abs)
               /\ {s[i] : i \in 1..Len(s)} = abs
               /\ \A i \in 1..(Len(s) - 1) : less(s[i], s[i + 1])

C2_Witness ==
    /\ Idle
    /\ call.op = "remove"
    /\ ret.result
    /\ lastCase = "remTwoRight_Three"
    /\ m_root # NIL
    /\ call.next = m_root
    /\ Len(InOrder(Here)) >= 5

\* C3: between calls, every red node sits in the left slot of its parent,
\* is marked LESS_THAN_PARENT, and its parent is black.
C3_RedLeansLeft ==
    Idle => \A x \in Reachable(Here) :
        isRed(Here, x) =>
            /\ getParent(Here, x) # NIL
            /\ isLessThanParent(Here, x)
            /\ getLeftChild(Here, getParent(Here, x)) = x
            /\ getRightChild(Here, getParent(Here, x)) # x
            /\ isBlack(Here, getParent(Here, x))

C3_Witness ==
    /\ Idle
    /\ lastCase = "addThreeRight"
    /\ \E x \in Reachable(Here) : isRed(Here, x)

\* C4: between calls, the root of a non-empty tree is black.
C4_RootBlack == Idle /\ m_root # NIL => isBlack(Here, m_root)

C4_Witness ==
    /\ Idle
    /\ call.op = "remove"
    /\ ret.result
    /\ lastCase = "remTwoRight_Two"
    /\ m_root # NIL
    /\ getLeftChild(Here, m_root) # NIL

\* C5: between calls, a node with a right child has a left child.
C5_NoRightOnly ==
    Idle => \A x \in Reachable(Here) :
        getRightChild(Here, x) # NIL => getLeftChild(Here, x) # NIL

C5_Witness ==
    /\ Idle
    /\ lastCase = "addTwoRight"
    /\ \E x \in Reachable(Here) :
        getLeftChild(Here, x) # NIL /\ getRightChild(Here, x) = NIL

\* C6 as stated: between calls, where a node has a red left child and a
\* right child, that right child has a left child.
C6_RightChildHasLeft ==
    Idle => \A x \in Reachable(Here) :
        LET l == getLeftChild(Here, x)
            r == getRightChild(Here, x)
        IN (l # NIL /\ isRed(Here, l) /\ r # NIL) => getLeftChild(Here, r) # NIL

\* C6 (amended): between calls, where a node has a red left child and a
\* right child, the red left child has both a left and a right child.
C6_RedLeftChildIsFull ==
    Idle => \A x \in Reachable(Here) :
        LET l == getLeftChild(Here, x)
            r == getRightChild(Here, x)
        IN (l # NIL /\ isRed(Here, l) /\ r # NIL) =>
               getLeftChild(Here, l) # NIL /\ getRightChild(Here, l) # NIL

C6_Witness ==
    /\ Idle
    /\ call.op = "remove"
    /\ ret.result
    /\ \E x \in Reachable(Here) :
        /\ getLeftChild(Here, x) # NIL
        /\ isRed(Here, getLeftChild(Here, x))
        /\ getRightChild(Here, x) # NIL
        /\ getLeftChild(Here, getRightChild(Here, x)) = NIL

\* C7: between calls, the relation bit of every node but the root agrees
\* with the key order against its parent.
C7_RelationMatchesKeys ==
    Idle => \A x \in Reachable(Here) :
        LET p == getParent(Here, x)
        IN x # m_root =>
            /\ p # NIL
            /\ isLessThanParent(Here, x) => less(getKey(Here, x), getKey(Here, p))
            /\ isGreaterThanParent(Here, x) => less(getKey(Here, p), getKey(Here, x))

C7_Witness ==
    /\ Idle
    /\ call.op = "remove"
    /\ ret.result
    /\ call.next # NIL
    /\ call.next # m_root
    /\ isGreaterThanParent(Here, call.next)
    /\ getLeftChild(Here, call.next) # NIL

\* C8: between calls getSize() is the number of nodes reachable from the
\* root and the number of nodes the successor walk visits; a call that
\* adds a key raises it by one at its start, a call that removes a key lowers
\* it by one at its start, and nothing else changes it.
C8_SizeIsCount ==
    Idle => /\ m_size = Cardinality(Reachable(Here))
            /\ m_size = Len(InOrder(Here))

C8_SizeStep ==
    /\ ~Idle => m_size' = m_size
    /\ (Idle /\ call'.op = "add") =>
            m_size' = IF call'.key \in abs THEN m_size ELSE m_size + 1
    /\ (Idle /\ call'.op = "remove") =>
            m_size' = IF call'.key \in abs THEN m_size - 1 ELSE m_size

\* C8: getSize() counts the nodes between calls and moves by exactly one
\* with each key added or removed.
C8_SizeConsistent == [](C8_SizeIsCount) /\ [][C8_SizeStep]_vars

C8_Witness ==
    /\ Idle
    /\ call.op = "remove"
    /\ ~ret.result
    /\ m_size = 4
    /\ Len(InOrder(Here)) = 4

\* C9: validate() returns true on the empty tree and after every add and
\* every remove.
C9_ValidateHolds == Idle => validate(Here)

C9_Witness ==
    /\ Idle
    /\ lastCase = "remThreeMiddle_Two_X"
    /\ m_size >= 4
    /\ validate(Here)

\* C10: add of a key already present returns at once with inserted = false
\* and the node that holds the key, and changes nothing: size, root, the
\* allocated nodes and every field of every node stay as they were.
C10_DuplicateAddStep ==
    (Idle /\ call'.op = "add" /\ call'.key \in abs) =>
        /\ pc' = "idle"
        /\ ret'.result = FALSE
        /\ ret'.node \in live
        /\ ret'.node = find(Here, call'.key)
        /\ getKey(Here, ret'.node) = call'.key
        /\ UNCHANGED <<nodes, live, m_root, m_size>>

\* C10: every add of a key already present is a step that returns false
\* with the existing node and changes nothing in the tree.
C10_DuplicateAdd == [][C10_DuplicateAddStep]_vars

C10_Witness ==
    /\ Idle
    /\ call.op = "add"
    /\ ~ret.result
    /\ ret.node # m_root
    /\ isRed(Here, ret.node)
    /\ m_size >= 3

\* C11: remove of a key the container does not hold (the empty container
\* included) returns false at once and changes nothing: size, root, the
\* allocated nodes and every field of every node stay as they were.
C11_AbsentRemoveStep ==
    (Idle /\ call'.op = "remove" /\ call'.key \notin abs) =>
        /\ pc' = "idle"
        /\ ret'.result = FALSE
        /\ find(Here, call'.key) = NIL
        /\ UNCHANGED <<nodes, live, m_root, m_size, abs>>

\* C11: every remove of an absent key is a step that returns false and
\* leaves the tree as it was.
C11_AbsentRemove == [][C11_AbsentRemoveStep]_vars

C11_Witness ==
    /\ Idle
    /\ call.op = "remove"
    /\ ~ret.result
    /\ call.node = NIL
    /\ m_size >= 5
    /\ m_root # NIL
    /\ less(call.key, getKey(Here, m_root))
    /\ find(Here, call.key) = NIL

\* The nodes of the tree whose key is greater, respectively smaller, than
\* the key of x.
Greater(T, x) == {y \in Reachable(T) : less(getKey(T, x), getKey(T, y))}
Smaller(T, x) == {y \in Reachable(T) : less(getKey(T, y), getKey(T, x))}

\* C12: between calls, for every node x of the tree, getNext gives the node
\* with the smallest key greater than x's and getPrevious the node with the
\* largest key smaller than x's; where there is no such node each gives x.
C12_NextPrevCorrect ==
    Idle => \A x \in Reachable(Here) :
        /\ getNext(Here, x) =
              IF Greater(Here, x) = {} THEN x
              ELSE CHOOSE y \in Greater(Here, x) :
                       \A z \in Greater(Here, x) : ~less(getKey(Here, z), getKey(Here, y))
        /\ getPrevious(Here, x) =
              IF Smaller(Here, x) = {} THEN x
              ELSE CHOOSE y \in Smaller(Here, x) :
                       \A z \in Smaller(Here, x) : ~less(getKey(Here, y), getKey(Here, z))

C12_Witness ==
    /\ Idle
    /\ call.op = "remove"
    /\ ret.result
    /\ m_size >= 6
    /\ getNext(Here, Rightmost(Here, m_root)) = Rightmost(Here, m_root)
    /\ getPrevious(Here, Leftmost(Here, m_root)) = Leftmost(Here, m_root)
    /\ \E x \in Reachable(Here) :
        /\ getRightChild(Here, x) = NIL
        /\ getNext(Here, x) = m_root
        /\ getParent(Here, x) # m_root
    /\ \E x \in Reachable(Here) :
        /\ getLeftChild(Here, x) = NIL
        /\ getPrevious(Here, x) = m_root
        /\ getParent(Here, x) # m_root

\* C13: at every moment no two allocated nodes hold the same key, and
\* between calls find(k) gives an allocated node holding k for every key k of
\* the set.
C13_OneNodePerKey ==
    /\ \A x, y \in live : getKey(Here, x) = getKey(Here, y) => x = y
    /\ Idle => \A k \in abs : find(Here, k) \in live /\ getKey(Here, find(Here, k)) = k

\* C13: in every step of every call, each allocated node stays allocated
\* and keeps its key, but for the node whose key a remove call is removing.
C13_NodeKeptStep ==
    \A x \in live :
        \/ x \in live' /\ nodes'[x].key = nodes[x].key
        \/ call'.op = "remove" /\ nodes[x].key = call'.key

\* C13: node handles are stable.  One node holds each key, find gives that
\* node, and no step of add or remove frees a node or changes its key but
\* the remove of that very key; so from the add of k to the remove of k
\* find(k) is the same node.
C13_HandlesStable == [](C13_OneNodePerKey) /\ [][C13_NodeKeptStep]_vars

\* The removed node has been exchanged with its successor, which was its
\* right child: it now hangs to the right of a node with a greater key.
C13_Witness ==
    /\ pc = "rem"
    /\ lastCase = "none"
    /\ call.node = cur
    /\ getKey(Here, cur) = call.key
    /\ isGreaterThanParent(Here, cur)
    /\ getParent(Here, cur) # NIL
    /\ less(getKey(Here, cur), getKey(Here, getParent(Here, cur)))
    /\ getParent(Here, cur) \in live
    /\ getParent(Here, cur) = m_root
    /\ m_size >= 4

\* The number of nodes on the longest path from x down to an empty slot.
RECURSIVE Height(_, _)
Height(T, x) ==
    IF x = NIL THEN 0
    ELSE LET hl == Height(T, getLeftChild(T, x))
             hr == Height(T, getRightChild(T, x))
         IN 1 + (IF hl > hr THEN hl ELSE hr)

\* C14: between calls, a tree of n >= 1 nodes of height h has
\* 2^h <= (n + 1)^2.
C14_HeightBound ==
    (Idle /\ m_size >= 1) =>
        2 ^ Height(Here, m_root) <= (m_size + 1) * (m_size + 1)

C14_Witness ==
    /\ Idle
    /\ call.op = "remove"
    /\ ret.result
    /\ m_size = 6
    /\ Height(Here, m_root) = 4

\* The numbers of black nodes met on the paths from x down to an empty
\* slot.
RECURSIVE BlackCounts(_, _)
BlackCounts(T, x) ==
    IF x = NIL THEN {0}
    ELSE LET below == BlackCounts(T, getLeftChild(T, x))
                      \cup BlackCounts(T, getRightChild(T, x))
         IN {(IF isBlack(T, x) THEN 1 ELSE 0) + c : c \in below}

\* C16: between calls, every path from the root down to an empty child slot
\* passes through the same number of black nodes.
C16_BlackBalanced == Idle => Cardinality(BlackCounts(Here, m_root)) = 1

C16_Witness ==
    /\ Idle
    /\ call.op = "remove"
    /\ ret.result
    /\ lastCase = "remTwoRight_Three"
    /\ BlackCounts(Here, m_root) = {3}

\* The number of nodes on the parent chain from x up to the root, x
\* included; a chain that does not end counts more than the heap holds.
RECURSIVE DepthUp(_, _, _)
DepthUp(T, x, fuel) ==
    IF x = NIL THEN 0
    ELSE IF fuel = 0 THEN MaxKey + 1
    ELSE 1 + DepthUp(T, getParent(T, x), fuel - 1)

Depth(T, x) == DepthUp(T, x, MaxKey + 1)

MergeCases == {"remTwoLeft_Two", "remTwoRight_Two"}

\* C17: an iteration of remove's walk goes on to another iteration exactly
\* when it applied a merge case under a parent that is not the root, the
\* deficient node then being the same node with a parent strictly closer to
\* the root; every other iteration returns from the call.
C17_RemWalkStep ==
    pc = "rem" =>
        LET a == getParent(Here, cur)
        IN /\ pc' \in {"rem", "idle"}
           /\ pc' = "rem" <=> (lastCase' \in MergeCases /\ getParent(Here, a) # NIL)
           /\ pc' = "rem" =>
                /\ cur' = cur
                /\ getParent(HereNext, cur') = getParent(Here, a)
                /\ Depth(HereNext, getParent(HereNext, cur')) < Depth(Here, a)

\* C17: inside remove's walk the deficient node is not the root and the
\* distance of its parent from the root is no more than the tree's height.
C17_RemWalkBounded ==
    pc = "rem" =>
        /\ cur # m_root
        /\ getParent(Here, cur) # NIL
        /\ Depth(Here, getParent(Here, cur)) < Height(Here, m_root)

\* C17: only a merge under a non-root parent hands the deficiency on, each
\* time strictly closer to the root, so remove's walk ends within
\* height-many iterations.
C17_RemWalkTerminates == [](C17_RemWalkBounded) /\ [][C17_RemWalkStep]_vars

C17_Witness ==
    /\ pc = "rem"
    /\ lastCase = "remTwoLeft_Two"
    /\ getParent(Here, cur) = m_root
    /\ getLeftChild(Here, cur) # NIL

SplitCases == {"addThreeLeft", "addThreeMiddle", "addThreeRight"}

\* C18: an iteration of add's walk that applied addTwoLeft or addTwoRight
\* returns from the call; one that applied addThreeLeft, addThreeMiddle or
\* addThreeRight either goes on with a free node whose parent is strictly
\* closer to the root than the free node's parent was, or made its free
\* node the root and returns.
C18_AddWalkStep ==
    pc = "add" =>
        /\ pc' \in {"add", "idle"}
        /\ lastCase' \in SplitCases \cup {"addTwoLeft", "addTwoRight"}
        /\ lastCase' \in {"addTwoLeft", "addTwoRight"} => pc' = "idle"
        /\ pc' = "add" =>
            /\ lastCase' \in SplitCases
            /\ getParent(HereNext, cur') # NIL
            /\ Depth(HereNext, getParent(HereNext, cur'))
                   < Depth(Here, getParent(Here, cur))
        /\ (pc' = "idle" /\ lastCase' \in SplitCases) =>
            /\ getParent(HereNext, m_root') = NIL
            /\ m_root' \notin {getLeftChild(HereNext, x) : x \in Node}
            /\ m_root' \notin {getRightChild(HereNext, x) : x \in Node}

\* C18: inside add's walk the free node is not the root and has a parent.
C18_AddWalkBounded ==
    pc = "add" =>
        /\ cur # m_root
        /\ getParent(Here, cur) # NIL
        /\ Depth(Here, getParent(Here, cur)) <= Height(Here, m_root)

\* C18: add's walk ends: every iteration returns or moves the free node
\* strictly closer to the root.
C18_AddWalkTerminates == [](C18_AddWalkBounded) /\ [][C18_AddWalkStep]_vars

C18_Witness ==
    /\ pc = "add"
    /\ lastCase \in SplitCases
    /\ isRed(Here, getParent(Here, cur))
    /\ getLeftChild(Here, cur) # NIL
    /\ getRightChild(Here, cur) # NIL

\* p holds c in one of its child slots.
Holds(T, p, c) == getLeftChild(T, p) = c \/ getRightChild(T, p) = c

\* A rebalancing transformation has just been applied: the state follows an
\* iteration of add's or remove's walk.
AfterWalkStep == pc \in {"add", "rem", "idle"} /\ lastCase # "none"

\* C19 as stated: after every iteration of the walks, among the nodes
\* reachable from the root a node held in a slot of p has parent pointer p,
\* and a node with parent pointer p is held in a slot of p.
C19_BackPointersEachStep ==
    AfterWalkStep => \A p, c \in Reachable(Here) :
        /\ Holds(Here, p, c) => getParent(Here, c) = p
        /\ getParent(Here, c) = p => Holds(Here, p, c)

\* The slot remove's deficient node is to take: the slot of its parent that
\* its relation bit names.  After remTwoLeft_Two it still holds the old top
\* of the merged subtree.
StaleSlot(p, c) ==
    /\ pc = "rem"
    /\ p = getParent(Here, cur)
    /\ c = getChild(Here, p, isLessThanParent(Here, cur))

\* C19 (amended): after every iteration of the walks, among the nodes
\* reachable from the root a node held in a slot of p has parent pointer p,
\* but for the slot remove's deficient node is to take while the walk goes
\* on; and a node with parent pointer p is held in a slot of p.  When the
\* call has returned there is no exception.
C19_BackPointersButWalkSlot ==
    AfterWalkStep =>
        /\ \A p, c \in Reachable(Here) :
            (Holds(Here, p, c) /\ ~StaleSlot(p, c)) => getParent(Here, c) = p
        /\ \A c \in Reachable(Here) : \A p \in Node :
            getParent(Here, c) = p => Holds(Here, p, c)

C19_Witness ==
    /\ pc = "rem"
    /\ lastCase = "remTwoLeft_Two"
    /\ \E p, c \in Reachable(Here) :
        /\ StaleSlot(p, c)
        /\ getParent(Here, c) # p
        /\ getParent(Here, c) = getLeftChild(Here, cur)

\* C20: between calls, the root's parent pointer is null and no other
\* node's is; a node of the tree sits in a child slot of p exactly when its
\* parent pointer is p; and it is marked LESS_THAN_PARENT exactly when the
\* slot is the left one.
C20_LinksWellFormed ==
    Idle =>
        /\ m_root # NIL => getParent(Here, m_root) = NIL
        /\ \A c \in Reachable(Here) : c # m_root => getParent(Here, c) \in Reachable(Here)
        /\ \A p, c \in Reachable(Here) :
            /\ Holds(Here, p, c) <=> getParent(Here, c) = p
            /\ getParent(Here, c) = p =>
                /\ isLessThanParent(Here, c) <=> getLeftChild(Here, p) = c
                /\ isGreaterThanParent(Here, c) <=> getRightChild(Here, p) = c

C20_Witness ==
    /\ Idle
    /\ call.op = "remove"
    /\ ret.result
    /\ lastCase = "remThreeRight_X_Three"
    /\ m_size >= 6
    /\ getParent(Here, m_root) = NIL
    /\ getLeftChild(Here, m_root) # NIL
    /\ getRightChild(Here, m_root) # NIL

\* The six invariants of the data model, on tree T with getSize() = size.
RootIsBlack(T) == T.root # NIL => isBlack(T, T.root)

RedLeansLeft(T) ==
    \A x \in Reachable(T) :
        isRed(T, x) =>
            /\ getParent(T, x) # NIL
            /\ isLessThanParent(T, x)
            /\ getLeftChild(T, getParent(T, x)) = x
            /\ isBlack(T, getParent(T, x))

RedLeftChildIsFull(T) ==
    \A x \in Reachable(T) :
        LET l == getLeftChild(T, x)
        IN (l # NIL /\ isRed(T, l) /\ getRightChild(T, x) # NIL) =>
               getLeftChild(T, l) # NIL /\ getRightChild(T, l) # NIL

NoRightOnly(T) ==
    \A x \in Reachable(T) : getRightChild(T, x) # NIL => getLeftChild(T, x) # NIL

RelationMatchesKeys(T) ==
    \A x \in Reachable(T) :
        LET p == getParent(T, x)
        IN p # NIL => (isLessThanParent(T, x) <=> less(getKey(T, x), getKey(T, p)))

SizeIsCount(T, size) == size = Cardinality(Reachable(T))

SixInvariants(T, size) ==
    /\ RootIsBlack(T)
    /\ RedLeansLeft(T)
    /\ RedLeftChildIsFull(T)
    /\ NoRightOnly(T)
    /\ RelationMatchesKeys(T)
    /\ SizeIsCount(T, size)

\* C15 as stated: validate() returns false on every tree in which some node
\* breaks one of the six invariants; that is, where it has returned true the
\* six invariants hold at every node, the maximum included.
C15_ValidateComplete ==
    (pc = "validated" /\ ret.result) => SixInvariants(Here, m_size)

\* The maximum node of a three-node tree is red, and validate() has returned
\* true.
C15_Witness ==
    /\ pc = "validated"
    /\ ret.result
    /\ m_size = 3
    /\ m_size = Cardinality(Reachable(Here))
    /\ isRed(Here, Rightmost(Here, m_root))
    /\ call.node = Rightmost(Here, m_root)

\* C21: no assertion of add, remove(key), remove(node) or of a rebalancing
\* case fails: the program never stops on an assertion, so every case is
\* applied only where its asserted preconditions hold.
C21_NoAssertionFails == pc # "abort"

C21_Witness ==
    /\ Idle
    /\ call.op = "remove"
    /\ ret.result
    /\ lastCase = "remThreeLeft_Three_X"
    /\ m_size >= 5
    /\ call.node \notin live

\* Node x with the two nodes n and s taken for one another.
Exchanged(n, s, x) == IF x = n THEN s ELSE IF x = s THEN n ELSE x

\* C22: a remove of a node n that has a right subtree exchanges n with its
\* successor s, wherever s is: every link, colour and relation bit of the
\* tree is afterwards what it was with n and s taken for one another (so s
\* has n's former parent, children, colour and relation and n has s's, n
\* standing for s where s was n's child), each node keeps its key, the root
\* is s if it was n, no node is its own parent or child, and n has no right
\* child.  Where the call then enters its walk, this is the tree it enters
\* it with.
C22_SwapStep ==
    (Idle /\ call'.op = "remove" /\ call'.node # NIL
          /\ getRightChild(Here, call'.node) # NIL) =>
        \A n \in {call'.node} :
        \A s \in {getNextLargestChild(Here, n)} :
        \A U \in {removeSwap(Here, n)} :
           /\ s # NIL
           /\ s # n
           /\ s = getNext(Here, n)
           /\ \A x \in Node :
                LET y == Exchanged(n, s, x)
                IN /\ getLeftChild(U, y) = Exchanged(n, s, getLeftChild(Here, x))
                   /\ getRightChild(U, y) = Exchanged(n, s, getRightChild(Here, x))
                   /\ getParent(U, y) = Exchanged(n, s, getParent(Here, x))
                   /\ isRed(U, y) = isRed(Here, x)
                   /\ isLessThanParent(U, y) = isLessThanParent(Here, x)
                   /\ getKey(U, x) = getKey(Here, x)
           /\ U.root = Exchanged(n, s, m_root)
           /\ \A x \in live :
                /\ getParent(U, x) # x
                /\ getLeftChild(U, x) # x
                /\ getRightChild(U, x) # x
           /\ getRightChild(U, n) = NIL
           /\ pc' = "rem" => (nodes' = U.n /\ m_root' = U.root /\ cur' = n)

\* C22: every remove of a node with a right subtree exchanges it correctly
\* with its successor.
C22_SwapCorrect == [][C22_SwapStep]_vars

\* The removed node has been exchanged with its successor, which was its
\* own right child, below the root: it is now the right child of the
\* successor and has no child.
C22_Witness ==
    /\ pc = "rem"
    /\ lastCase = "none"
    /\ call.node = cur
    /\ getParent(Here, cur) # NIL
    /\ getParent(Here, cur) # m_root
    /\ getParent(Here, cur) # cur
    /\ getRightChild(Here, getParent(Here, cur)) = cur
    /\ getLeftChild(Here, getParent(Here, cur)) # NIL
    /\ less(getKey(Here, cur), getKey(Here, getParent(Here, cur)))
    /\ getRightChild(Here, cur) = NIL
    /\ getLeftChild(Here, cur) = NIL

\* The classes of the node n that remove takes out of tree U (U is the tree
\* after the successor exchange).
NoChildren(U, n) == getLeftChild(U, n) = NIL /\ getRightChild(U, n) = NIL

RedWithLeftChild(U, n) == isRed(U, n) /\ getLeftChild(U, n) # NIL

RedLeaf(U, n) == isRed(U, n) /\ NoChildren(U, n)

BlackRootLeaf(U, n) == isBlack(U, n) /\ n = U.root /\ NoChildren(U, n)

BlackWithRedLeft(U, n) ==
    /\ isBlack(U, n)
    /\ getLeftChild(U, n) # NIL
    /\ isRed(U, getLeftChild(U, n))

BlackLeafNotRoot(U, n) == isBlack(U, n) /\ n # U.root /\ NoChildren(U, n)

\* A call of remove that has found its node n.
RemovesNode == Idle /\ call'.op = "remove" /\ call'.node # NIL /\ call'.node \in live

\* C23 as stated: the node remove takes out is in exactly one of the
\* classes RED with a left child, BLACK root with no children, BLACK with a
\* RED left child, BLACK with no children and not the root.
C23_FourClassesStep ==
    RemovesNode =>
        \A n \in {call'.node} : \A U \in {removeSwap(Here, n)} :
            Cardinality({c \in 1..4 :
                \/ c = 1 /\ RedWithLeftChild(U, n)
                \/ c = 2 /\ BlackRootLeaf(U, n)
                \/ c = 3 /\ BlackWithRedLeft(U, n)
                \/ c = 4 /\ BlackLeafNotRoot(U, n)}) = 1

\* C23 as stated: every remove takes out a node of exactly one of the four
\* classes as the specification lists them.
C23_FourClasses == [][C23_FourClassesStep]_vars

\* C23 (amended): the node remove takes out is in exactly one of the
\* classes RED with no children, BLACK root with no children, BLACK with a
\* RED left child, BLACK with no children and not the root; in the first
\* three the call frees the node and returns without a walk (the parent's
\* left slot emptied, the tree emptied, the left child put BLACK in the
\* node's place), in the fourth it enters the walk with the node.
C23_ClassesStep ==
    RemovesNode =>
        \A n \in {call'.node} : \A U \in {removeSwap(Here, n)} :
            /\ Cardinality({c \in 1..4 :
                \/ c = 1 /\ RedLeaf(U, n)
                \/ c = 2 /\ BlackRootLeaf(U, n)
                \/ c = 3 /\ BlackWithRedLeft(U, n)
                \/ c = 4 /\ BlackLeafNotRoot(U, n)}) = 1
            /\ RedLeaf(U, n) =>
                /\ pc' = "idle"
                /\ n \notin live'
                /\ getLeftChild(HereNext, getParent(U, n)) = NIL
            /\ BlackRootLeaf(U, n) =>
                /\ pc' = "idle"
                /\ n \notin live'
                /\ m_root' = NIL
            /\ BlackWithRedLeft(U, n) =>
                /\ pc' = "idle"
                /\ n \notin live'
                /\ isBlack(HereNext, getLeftChild(U, n))
                /\ getParent(HereNext, getLeftChild(U, n)) = getParent(U, n)
                /\ IF getParent(U, n) = NIL
                   THEN m_root' = getLeftChild(U, n)
                   ELSE getChild(HereNext, getParent(U, n), isLessThanParent(U, n))
                            = getLeftChild(U, n)
            /\ BlackLeafNotRoot(U, n) =>
                /\ pc' = "rem"
                /\ cur' = n
                /\ n \in live'

\* C23 (amended): every remove takes out a node of exactly one of the four
\* classes, the first being RED with no children, and acts as that class
\* requires.
C23_Classes == [][C23_ClassesStep]_vars

\* A RED node has been taken out: the call returned without a walk, and the
\* node it names as next, the BLACK half of the leaf 3-node, is left with no
\* child.
C23_Witness ==
    /\ Idle
    /\ call.op = "remove"
    /\ ret.result
    /\ lastCase = "none"
    /\ call.node \notin live
    /\ call.next # NIL
    /\ call.next # m_root
    /\ isBlack(Here, call.next)
    /\ NoChildren(Here, call.next)
    /\ less(call.key, getKey(Here, call.next))

\* C24 as stated: when remove has returned true, next is the node with the
\* smallest key of the tree greater than the removed key, and null when the
\* tree has no greater key.
C24_NextIsSuccessor ==
    (Idle /\ call.op = "remove" /\ ret.result) =>
        \A above \in {{y \in Reachable(Here) : less(call.key, getKey(Here, y))}} :
            ret.next = IF above = {} THEN NIL
                       ELSE CHOOSE y \in above :
                                \A z \in above : ~less(getKey(Here, z), getKey(Here, y))

\* remove has returned true with next null although the tree holds a key
\* greater than the removed one.
C24_Witness ==
    /\ Idle
    /\ call.op = "remove"
    /\ ret.result
    /\ ret.next = NIL
    /\ m_size = 2
    /\ \E y \in Reachable(Here) : less(call.key, getKey(Here, y))

\* The allocated nodes are the nodes of the tree, and no allocated node
\* points at a node that is not allocated.
C25_Allocated ==
    /\ Idle => live = Reachable(Here)
    /\ \A x \in live :
        /\ getParent(Here, x) \in live \cup {NIL}
        /\ getLeftChild(Here, x) \in live \cup {NIL}
        /\ getRightChild(Here, x) \in live \cup {NIL}

\* What one step allocates and frees: the call of add allocates one node for
\* an absent key and none for a present one, the call of remove finds the
\* node that holds the key, the walks allocate and free nothing, and the
\* return of a successful remove frees that node and no other.
C25_AllocStep ==
    /\ (Idle /\ pc' # "abort" /\ call'.op = "add") =>
           IF find(Here, call'.key) # NIL
           THEN live' = live /\ pc' = "idle" /\ ~ret'.result
           ELSE /\ call'.node \notin live
                /\ live' = live \cup {call'.node}
                /\ getKey(HereNext, call'.node) = call'.key
    /\ pc = "add" =>
           /\ live' = live
           /\ pc' = "idle" => ret'.result
    /\ (Idle /\ pc' # "abort" /\ call'.op = "remove") =>
           IF call'.node = NIL
           THEN find(Here, call'.key) = NIL /\ live' = live /\ pc' = "idle" /\ ~ret'.result
           ELSE /\ call'.node \in live
                /\ getKey(Here, call'.node) = call'.key
                /\ pc' = "rem" => live' = live
                /\ pc' = "idle" => ret'.result /\ live' = live \ {call'.node}
    /\ pc = "rem" =>
           /\ call.node \in live
           /\ pc' = "rem" => live' = live
           /\ pc' = "idle" => ret'.result /\ live' = live \ {call.node}

\* C25: a successful add allocates exactly one node and a successful remove
\* frees exactly one, the node that held the removed key; a failed add or
\* remove allocates and frees nothing; after every operation the allocated
\* nodes are the nodes reachable from the root, and no node points at a
\* freed one.
C25_NoLeakNoDangling == []C25_Allocated /\ [][C25_AllocStep]_vars

\* A remove that ended in remThreeLeft_Two_X has freed its node, and the
\* allocated nodes are those of the tree.
C25_Witness ==
    /\ Idle
    /\ call.op = "remove"
    /\ ret.result
    /\ lastCase = "remThreeLeft_Two_X"
    /\ call.node \notin live
    /\ live = Reachable(Here)
    /\ m_size >= 4

====
